---- MODULE Spec2Model ----
(***************************************************************************)
(* A model of dirdiff.py: the comparison of two directory trees.           *)
(*                                                                         *)
(* Strings are sequences of one-character strings, so that the string      *)
(* handling of the program (split, strip, int, the "in" test, sorted) is   *)
(* computed character by character, as Python computes it.                 *)
(***************************************************************************)
EXTENDS Integers, Sequences, FiniteSets, TLC

\* ------------------------------------------------------------------------
\* Bounds of the model.

\* The deepest path the scan returns, in path segments.
MaxDepth == 2
\* The most files the two directories hold together.
MaxFiles == 2
\* The longest file content, in lines of the hex dump.
MaxLines == 3
\* The most records handed to identify_significant_changes.
MaxRecords == 3
\* The largest total_changes of a record handed to identify_significant_changes.
MaxTotal == 4

\* ------------------------------------------------------------------------
\* Python's str operations.

\* s[i:j] on 1-based inclusive positions; empty when i > j.
Slice(s, i, j) == IF i > j THEN << >> ELSE SubSeq(s, i, j)

\* s.startswith(sub) at position i.
MatchAt(s, sub, i) ==
    /\ i + Len(sub) - 1 <= Len(s)
    /\ \A k \in 1..Len(sub) : s[i + k - 1] = sub[k]

\* sub in s
Contains(s, sub) == \E i \in 1..(Len(s) - Len(sub) + 1) : MatchAt(s, sub, i)

\* s.find(sub) from position i on: the first position where sub occurs, 0
\* when it does not.
RECURSIVE FindFrom(_, _, _)
FindFrom(s, sub, i) ==
    IF i + Len(sub) - 1 > Len(s) THEN 0
    ELSE IF MatchAt(s, sub, i) THEN i
    ELSE FindFrom(s, sub, i + 1)

Find(s, sub) == FindFrom(s, sub, 1)

\* s.split(sub): the pieces of s between the occurrences of sub, left to right.
RECURSIVE Split(_, _)
Split(s, sub) ==
    LET i == Find(s, sub)
    IN  IF i = 0
        THEN << s >>
        ELSE << Slice(s, 1, i - 1) >> \o Split(Slice(s, i + Len(sub), Len(s)), sub)

\* sep.join(parts)
RECURSIVE Join(_, _)
Join(parts, sep) ==
    IF Len(parts) = 0 THEN << >>
    ELSE IF Len(parts) = 1 THEN parts[1]
    ELSE parts[1] \o sep \o Join(Tail(parts), sep)

Whitespace == {" ", "\n", "\t"}

\* s.strip()
RECURSIVE LStrip(_)
LStrip(s) == IF Len(s) > 0 /\ s[1] \in Whitespace THEN LStrip(Tail(s)) ELSE s

RECURSIVE RStrip(_)
RStrip(s) ==
    IF Len(s) > 0 /\ s[Len(s)] \in Whitespace
    THEN RStrip(Slice(s, 1, Len(s) - 1))
    ELSE s

Strip(s) == LStrip(RStrip(s))

Digits == << "0", "1", "2", "3", "4", "5", "6", "7", "8", "9" >>

DigitValue(c) == (CHOOSE k \in 1..10 : Digits[k] = c) - 1

\* Whether int(s) succeeds on a stripped string: a non-empty run of digits.
\* Anything else raises ValueError.
IsInt(s) == Len(s) > 0 /\ \A k \in 1..Len(s) : \E d \in 1..10 : Digits[d] = s[k]

\* int(s), for s with IsInt(s).
RECURSIVE ParseInt(_)
ParseInt(s) ==
    IF Len(s) = 0 THEN 0
    ELSE 10 * ParseInt(Slice(s, 1, Len(s) - 1)) + DigitValue(s[Len(s)])

\* str(n) for n >= 0.
RECURSIVE Str(_)
Str(n) == IF n < 10 THEN << Digits[n + 1] >> ELSE Str(n \div 10) \o << Digits[(n % 10) + 1] >>

\* parts[-k] of a list; IndexError when the list is shorter than k.
HasFromEnd(parts, k) == Len(parts) >= k
FromEnd(parts, k) == parts[Len(parts) - k + 1]

\* The words parse_diffstat and run_xxd_diff look for or return.
WInsertion == << "i", "n", "s", "e", "r", "t", "i", "o", "n" >>
WDeletion == << "d", "e", "l", "e", "t", "i", "o", "n" >>
WZeroFiles == << "0", " ", "f", "i", "l", "e", "s", " ", "c", "h", "a", "n", "g", "e", "d" >>
WComma == << "," >>
WError == << "E", "r", "r", "o", "r", " ", "c", "o", "m", "p", "a", "r", "i", "n", "g", " ",
             "f", "i", "l", "e", "s" >>

\* ------------------------------------------------------------------------
\* parse_diffstat

\* insertions: the number before the word "insertion", after the last comma.
ParseInsertions(diffstat_output) ==
    IF Contains(diffstat_output, WInsertion)
    THEN LET ins_part == Split(diffstat_output, WInsertion)[1]
             text == Strip(FromEnd(Split(ins_part, WComma), 1))
         IN  IF IsInt(text) THEN ParseInt(text) ELSE 0
    ELSE 0

\* A slip the deletions branch could have: always the piece before the last comma.
ParseDeletionsSecondLast(diffstat_output) ==
    IF Contains(diffstat_output, WDeletion)
    THEN LET del_part == Split(diffstat_output, WDeletion)[1]
             pieces == Split(del_part, WComma)
         IN  IF ~HasFromEnd(pieces, 2) THEN 0
             ELSE LET text == Strip(FromEnd(pieces, 2))
                  IN  IF IsInt(text) THEN ParseInt(text) ELSE 0
    ELSE 0

\* deletions: the text before the word "deletion"; when it holds the word
\* "insertion" the piece before the last comma, else the piece after it.
\* ValueError and IndexError leave deletions at 0.
ParseDeletions(diffstat_output) ==
    IF Contains(diffstat_output, WDeletion)
    THEN LET del_part == Split(diffstat_output, WDeletion)[1]
             pieces == Split(del_part, WComma)
             k == IF Contains(del_part, WInsertion) THEN 2 ELSE 1
         IN  IF ~HasFromEnd(pieces, k) THEN 0
             ELSE LET text == Strip(FromEnd(pieces, k))
                  IN  IF IsInt(text) THEN ParseInt(text) ELSE 0
    ELSE 0

\* parse_diffstat(diffstat_output) = <<insertions, deletions>>
parse_diffstat(diffstat_output) ==
    IF Contains(diffstat_output, WZeroFiles)
    THEN << 0, 0 >>
    ELSE << ParseInsertions(diffstat_output), ParseDeletions(diffstat_output) >>

\* ------------------------------------------------------------------------
\* The external tools run_xxd_diff runs: xxd, diff and diffstat.

\* bytes per line of xxd's dump
ChunkSize == 16

HexDigits == << "0", "1", "2", "3", "4", "5", "6", "7", "8", "9",
                "a", "b", "c", "d", "e", "f" >>

\* The two hex digits of a byte.
HexByte(b) == << HexDigits[(b \div 16) + 1], HexDigits[(b % 16) + 1] >>

RECURSIVE HexBytes(_)
HexBytes(bytes) ==
    IF Len(bytes) = 0 THEN << >> ELSE HexByte(bytes[1]) \o HexBytes(Tail(bytes))

\* The character xxd prints for a byte in its text column: the byte when it
\* is printable ASCII (here one stand-in letter), a dot otherwise.
AsciiChar(b) == IF b >= 32 /\ b <= 126 THEN "A" ELSE "."

\* One line of xxd's dump: the offset of the chunk, its bytes in hex and
\* its text column.
XxdLine(offset, chunk) ==
    [offset |-> offset,
     hex    |-> HexBytes(chunk),
     ascii  |-> [k \in 1..Len(chunk) |-> AsciiChar(chunk[k])]]

\* xxd file: one line per chunk of ChunkSize bytes, the last one shorter.
RECURSIVE XxdFrom(_, _)
XxdFrom(bytes, offset) ==
    IF Len(bytes) = 0 THEN << >>
    ELSE IF Len(bytes) <= ChunkSize THEN << XxdLine(offset, bytes) >>
    ELSE << XxdLine(offset, SubSeq(bytes, 1, ChunkSize)) >>
         \o XxdFrom(SubSeq(bytes, ChunkSize + 1, Len(bytes)), offset + ChunkSize)

Xxd(bytes) == XxdFrom(bytes, 0)

\* The length of a longest common subsequence of two line sequences.
RECURSIVE LCSLen(_, _)
LCSLen(A, B) ==
    IF Len(A) = 0 \/ Len(B) = 0 THEN 0
    ELSE IF A[1] = B[1] THEN 1 + LCSLen(Tail(A), Tail(B))
    ELSE LET x == LCSLen(Tail(A), B)
             y == LCSLen(A, Tail(B))
         IN  IF x >= y THEN x ELSE y

\* diff old new: a minimal edit script, the lines of old it drops marked "<"
\* and the lines of new it adds marked ">".
RECURSIVE Diff(_, _)
Diff(A, B) ==
    IF Len(A) = 0 THEN [k \in 1..Len(B) |-> << ">", B[k] >>]
    ELSE IF Len(B) = 0 THEN [k \in 1..Len(A) |-> << "<", A[k] >>]
    ELSE IF A[1] = B[1] THEN Diff(Tail(A), Tail(B))
    ELSE IF LCSLen(Tail(A), B) >= LCSLen(A, Tail(B))
         THEN << << "<", A[1] >> >> \o Diff(Tail(A), B)
         ELSE << << ">", B[1] >> >> \o Diff(A, Tail(B))

CountMarked(script, mark) == Cardinality({k \in 1..Len(script) : script[k][1] = mark})

Repeat(c, n) == [k \in 1..n |-> c]

\* "<n> insertion(+)" or "<n> insertions(+)", and the same for deletions.
Counted(n, word, sign) ==
    Str(n) \o << " " >> \o word \o (IF n = 1 THEN << >> ELSE << "s" >>)
    \o << "(", sign, ")" >>

\* diffstat on a diff: the histogram line of the one file and the summary
\* line, which leaves out a count of zero; " 0 files changed" for an empty diff.
Diffstat(script) ==
    LET i == CountMarked(script, ">")
        d == CountMarked(script, "<")
    IN  IF i = 0 /\ d = 0
        THEN << " " >> \o WZeroFiles \o << "\n" >>
        ELSE << " ", "u", "n", "k", "n", "o", "w", "n", " ", "|", " " >> \o Str(i + d)
             \o << " " >> \o Repeat("+", i) \o Repeat("-", d) \o << "\n" >>
             \o << " ", "1", " ", "f", "i", "l", "e", " ", "c", "h", "a", "n", "g", "e", "d" >>
             \o (IF i > 0 THEN << ",", " " >> \o Counted(i, WInsertion, "+") ELSE << >>)
             \o (IF d > 0 THEN << ",", " " >> \o Counted(d, WDeletion, "-") ELSE << >>)
             \o << "\n" >>

\* A file as xxd finds it: readable with its bytes, or not readable (no
\* permission, gone since the scan, a dangling link), when xxd exits non-zero.
File(bytes) == [readable |-> TRUE, bytes |-> bytes]
Unreadable == [readable |-> FALSE, bytes |-> << >>]

\* run_xxd_diff(file1, file2): the stripped output of diffstat, or the error
\* text when xxd fails on either file (CalledProcessError).
run_xxd_diff(file1, file2) ==
    IF ~file1.readable \/ ~file2.readable
    THEN WError
    ELSE Strip(Diffstat(Diff(Xxd(file1.bytes), Xxd(file2.bytes))))

\* ------------------------------------------------------------------------
\* Paths, Python's order on str, and the dict the tree is built in.

\* os.sep
os_sep == << "/" >>

\* ord(c) of the characters paths are made of.
Ord(c) ==
    CASE c = "-" -> 45
      [] c = "/" -> 47
      [] c = "a" -> 97
      [] c = "b" -> 98

\* s < t for str: by code point at the first difference, a proper prefix first.
RECURSIVE StrLess(_, _)
StrLess(s, t) ==
    IF Len(t) = 0 THEN FALSE
    ELSE IF Len(s) = 0 THEN TRUE
    ELSE IF s[1] = t[1] THEN StrLess(Tail(s), Tail(t))
    ELSE Ord(s[1]) < Ord(t[1])

\* sorted(S) of a set of str.
RECURSIVE Sorted(_)
Sorted(S) ==
    IF S = {} THEN << >>
    ELSE LET m == CHOOSE x \in S : \A y \in S \ {x} : StrLess(x, y)
         IN  << m >> \o Sorted(S \ {m})

\* The file and directory names of the model: "a-b" is "a" followed by a
\* character that sorts before os.sep.
Names == { << "a" >>, << "a", "-", "b" >> }

\* os.path.relpath(os.path.join(root, filename), directory): the names from
\* the scanned directory down to the file, joined by os.sep.
Paths == { Join(ns, os_sep) : ns \in UNION { [1..d -> Names] : d \in 1..MaxDepth } }

\* p names a directory above the file q.
IsDirPrefixOf(p, q) == Len(p) < Len(q) /\ SubSeq(q, 1, Len(p) + 1) = p \o os_sep

\* What one os.walk can return: no path is both a file and a directory.
OneTree(S) == \A p \in S, q \in S : ~IsDirPrefixOf(p, q)

\* A dict, in insertion order: a sequence of <<key, value>>.
DictHas(d, key) == \E k \in 1..Len(d) : d[k][1] = key
DictIndex(d, key) == CHOOSE k \in 1..Len(d) : d[k][1] = key
DictGet(d, key) == d[DictIndex(d, key)][2]
\* d[key] = value: a key the dict holds keeps its place.
DictSet(d, key, value) ==
    IF DictHas(d, key)
    THEN [d EXCEPT ![DictIndex(d, key)] = << key, value >>]
    ELSE Append(d, << key, value >>)

FileNode(status, changes) == [type |-> "file", status |-> status, changes |-> changes]
DirNode(children) == [type |-> "dir", children |-> children]

\* Whether the walk down the directory parts of a path reaches a node that
\* is a file: current[part]["children"] then raises KeyError.
RECURSIVE RaisesKeyError(_, _)
RaisesKeyError(current, dirs) ==
    IF Len(dirs) = 0 \/ ~DictHas(current, dirs[1]) THEN FALSE
    ELSE LET node == DictGet(current, dirs[1])
         IN  IF node.type = "file" THEN TRUE
             ELSE RaisesKeyError(node.children, Tail(dirs))

\* The tree after a walk that raises KeyError: the directories created on
\* the way down to the file node stay.
RECURSIVE MakeDirs(_, _)
MakeDirs(current, dirs) ==
    IF Len(dirs) = 0 THEN current
    ELSE LET made == IF DictHas(current, dirs[1]) THEN current
                     ELSE DictSet(current, dirs[1], DirNode(<< >>))
             node == DictGet(made, dirs[1])
         IN  IF node.type = "file" THEN made
             ELSE DictSet(made, dirs[1], DirNode(MakeDirs(node.children, Tail(dirs))))

\* The tree after the inner loop over the parts of one path, when no
\* KeyError is raised: missing directories are created, and the last part
\* is assigned the file node.
RECURSIVE Insert(_, _, _)
Insert(current, parts, leaf) ==
    IF Len(parts) = 1 THEN DictSet(current, parts[1], leaf)
    ELSE LET made == IF DictHas(current, parts[1]) THEN current
                     ELSE DictSet(current, parts[1], DirNode(<< >>))
             node == DictGet(made, parts[1])
         IN  DictSet(made, parts[1],
                     DirNode(Insert(node.children, Tail(parts), leaf)))

\* ------------------------------------------------------------------------
\* build_directory_tree

VARIABLES
    pc,                  \* where the program is
    files1, files2,      \* get_all_files(dir1), get_all_files(dir2)
    all_files,           \* sorted(files1 | files2)
    next_file,           \* the position of the for loop in all_files
    tree,                \* the nested dict
    changed_files_data,  \* the records of the changed files
    xxd_calls,           \* the calls of run_xxd_diff: path and the two files
    threshold_multiplier,\* the multiplier given to identify_significant_changes
    report               \* what identify_significant_changes returned

vars == << pc, files1, files2, all_files, next_file, tree, changed_files_data,
           xxd_calls, threshold_multiplier, report >>

NoReport == [significant_files |-> << >>, mean_changes |-> << 0, 1 >>,
             threshold |-> [mean |-> << 0, 1 >>, multiplier |-> << 0, 1 >>,
                            variance |-> << 0, 1 >>]]

added_files == files2 \ files1
removed_files == files1 \ files2
common_files == files1 \cap files2

\* The path the for loop is at.
file_path == all_files[next_file]
parts == Split(file_path, os_sep)
DirParts == SubSeq(parts, 1, Len(parts) - 1)

InLoop == pc = "loop" /\ next_file <= Len(all_files)

\* A slip: only the added files skip the comparison.
SkipsOnlyAdded(path) == path \in added_files

\* The branch of the if that gives the status without a comparison.
SkipsComparison(path) == path \in added_files \/ path \in removed_files

\* A slip: insertions >= 0 or deletions > 0
IsChangedOrEqual(insertions, deletions) == insertions >= 0 \/ deletions > 0

\* insertions > 0 or deletions > 0
IsChanged(insertions, deletions) == insertions > 0 \/ deletions > 0

\* A slip: the total counts the insertions alone.
ChangedRecordInsertionsOnly(path, insertions, deletions) ==
    [path |-> path, insertions |-> insertions, deletions |-> deletions,
     total_changes |-> insertions]

\* The record appended for a changed file.
ChangedRecord(path, insertions, deletions) ==
    [path |-> path, insertions |-> insertions, deletions |-> deletions,
     total_changes |-> insertions + deletions]

Init ==
    /\ pc = "scan"
    /\ files1 = {}
    /\ files2 = {}
    /\ all_files = << >>
    /\ next_file = 1
    /\ tree = << >>
    /\ changed_files_data = << >>
    /\ xxd_calls = << >>
    /\ threshold_multiplier = << 2, 1 >>
    /\ report = NoReport

\* The two scans and the sort of the union.
Scan ==
    /\ pc = "scan"
    /\ \E found \in { S \in SUBSET Paths : Cardinality(S) <= MaxFiles } :
       \E f1 \in SUBSET found, f2 \in SUBSET found :
        /\ f1 \cup f2 = found
        /\ OneTree(f1)
        /\ OneTree(f2)
        /\ files1' = f1
        /\ files2' = f2
        /\ all_files' = Sorted(f1 \cup f2)
    /\ pc' = "loop"
    /\ UNCHANGED << next_file, tree, changed_files_data, xxd_calls,
                    threshold_multiplier, report >>

\* One pass of the for loop on a file only the new directory holds.
AddedFile ==
    /\ InLoop
    /\ ~RaisesKeyError(tree, DirParts)
    /\ file_path \in added_files
    /\ tree' = Insert(tree, parts, FileNode("added", << 0, 0 >>))
    /\ next_file' = next_file + 1
    /\ UNCHANGED << pc, files1, files2, all_files, changed_files_data, xxd_calls,
                    threshold_multiplier, report >>

\* One pass of the for loop on a file only the old directory holds.
RemovedFile ==
    /\ InLoop
    /\ ~RaisesKeyError(tree, DirParts)
    /\ file_path \notin added_files
    /\ file_path \in removed_files
    /\ tree' = Insert(tree, parts, FileNode("removed", << 0, 0 >>))
    /\ next_file' = next_file + 1
    /\ UNCHANGED << pc, files1, files2, all_files, changed_files_data, xxd_calls,
                    threshold_multiplier, report >>

\* One pass of the for loop on a file it compares: the two files are what
\* xxd finds under the two directories, each one of Contents or unreadable.
ComparedFile(Contents) ==
    /\ InLoop
    /\ ~RaisesKeyError(tree, DirParts)
    /\ ~SkipsComparison(file_path)
    /\ \E file1 \in Contents, file2 \in Contents :
        LET diffstat_output == run_xxd_diff(file1, file2)
            counts == parse_diffstat(diffstat_output)
            insertions == counts[1]
            deletions == counts[2]
        IN  /\ xxd_calls' = Append(xxd_calls,
                    [path |-> file_path, file1 |-> file1, file2 |-> file2])
            /\ IF IsChanged(insertions, deletions)
               THEN /\ tree' = Insert(tree, parts,
                                      FileNode("changed", << insertions, deletions >>))
                    /\ changed_files_data' =
                         Append(changed_files_data,
                                ChangedRecord(file_path, insertions, deletions))
               ELSE /\ tree' = Insert(tree, parts, FileNode("unchanged", << 0, 0 >>))
                    /\ UNCHANGED changed_files_data
    /\ next_file' = next_file + 1
    /\ UNCHANGED << pc, files1, files2, all_files, threshold_multiplier, report >>

\* A pass of the for loop that walks into a file node: the KeyError leaves
\* build_directory_tree and ends the program.
KeyError ==
    /\ InLoop
    /\ RaisesKeyError(tree, DirParts)
    /\ tree' = MakeDirs(tree, DirParts)
    /\ pc' = "KeyError"
    /\ UNCHANGED << files1, files2, all_files, next_file, changed_files_data,
                    xxd_calls, threshold_multiplier, report >>

\* return tree, changed_files_data
Return ==
    /\ pc = "loop"
    /\ next_file > Len(all_files)
    /\ pc' = "done"
    /\ UNCHANGED << files1, files2, all_files, next_file, tree, changed_files_data,
                    xxd_calls, threshold_multiplier, report >>

\* ------------------------------------------------------------------------
\* identify_significant_changes

\* Numbers are exact: a rational is <<numerator, denominator>> with a
\* positive denominator, and the threshold mean + multiplier * stdev is kept
\* as its three parts, the standard deviation as its square.

RECURSIVE SumSeq(_)
SumSeq(xs) == IF Len(xs) = 0 THEN 0 ELSE xs[1] + SumSeq(Tail(xs))

Totals(records) == [k \in 1..Len(records) |-> records[k].total_changes]

\* statistics.mean(data)
Mean(data) == << SumSeq(data), Len(data) >>

\* statistics.stdev(data) squared: the squares of the distances from the
\* mean, summed and divided by n - 1.
SampleVariance(data) ==
    LET n == Len(data)
        S == SumSeq(data)
    IN  << SumSeq([k \in 1..n |-> (n * data[k] - S) * (n * data[k] - S)]),
           n * n * (n - 1) >>

\* statistics.stdev(total_changes) if len(total_changes) > 1 else 0, squared
VarianceOrZero(data) == IF Len(data) > 1 THEN SampleVariance(data) ELSE << 0, 1 >>

\* mean_changes + (threshold_multiplier * stdev_changes)
Threshold(data, multiplier) ==
    [mean |-> Mean(data), multiplier |-> multiplier, variance |-> VarianceOrZero(data)]

\* A slip: total_changes >= threshold
AtLeastThreshold(x, threshold) ==
    LET d == x * threshold.mean[2] - threshold.mean[1]
        n == threshold.mean[2]
        p == threshold.multiplier[1]
        q == threshold.multiplier[2]
        v == threshold.variance
    IN  /\ d >= 0
        /\ d * d * q * q * v[2] >= p * p * v[1] * n * n

\* file_data["total_changes"] > threshold. With d = (x - mean) * n the test
\* is d / n > (p / q) * stdev, for a multiplier p / q >= 0: d is positive
\* and the square of the left side is the greater.
AboveThreshold(x, threshold) ==
    LET d == x * threshold.mean[2] - threshold.mean[1]
        n == threshold.mean[2]
        p == threshold.multiplier[1]
        q == threshold.multiplier[2]
        v == threshold.variance
    IN  /\ d > 0
        /\ d * d * q * q * v[2] > p * p * v[1] * n * n

\* The list comprehension: the records above the threshold, in input order.
RECURSIVE Significant(_, _)
Significant(records, threshold) ==
    IF Len(records) = 0 THEN << >>
    ELSE (IF AboveThreshold(records[1].total_changes, threshold)
          THEN << records[1] >> ELSE << >>)
         \o Significant(Tail(records), threshold)

\* A slip: a record goes before the records of the same total.
InsertBeforeEqual(sorted, r) ==
    LET before == {k \in 1..Len(sorted) : sorted[k].total_changes > r.total_changes}
        n == Cardinality(before)
    IN  SubSeq(sorted, 1, n) \o << r >> \o SubSeq(sorted, n + 1, Len(sorted))

\* One record put into a list sorted by total, descending: after every
\* record whose total is at least its own, as a stable sort leaves it.
InsertDescending(sorted, r) ==
    LET before == {k \in 1..Len(sorted) : sorted[k].total_changes >= r.total_changes}
        n == Cardinality(before)
    IN  SubSeq(sorted, 1, n) \o << r >> \o SubSeq(sorted, n + 1, Len(sorted))

\* significant_files.sort(key=lambda x: x["total_changes"], reverse=True)
RECURSIVE SortDescendingFrom(_, _)
SortDescendingFrom(sorted, records) ==
    IF Len(records) = 0 THEN sorted
    ELSE SortDescendingFrom(InsertDescending(sorted, records[1]), Tail(records))

SortDescending(records) == SortDescendingFrom(<< >>, records)

\* identify_significant_changes(changed_files_data, threshold_multiplier),
\* as main calls it: on a list that is not empty.
Analyze ==
    /\ pc = "analyze"
    /\ Len(changed_files_data) > 0
    /\ LET total_changes == Totals(changed_files_data)
           threshold == Threshold(total_changes, threshold_multiplier)
       IN  report' = [significant_files |->
                          SortDescending(Significant(changed_files_data, threshold)),
                      mean_changes |-> Mean(total_changes),
                      threshold |-> threshold]
    /\ pc' = "analyzed"
    /\ UNCHANGED << files1, files2, all_files, next_file, tree, changed_files_data,
                    xxd_calls, threshold_multiplier >>

\* ------------------------------------------------------------------------
\* The inputs of the model.

Zeros(n) == [k \in 1..n |-> 0]

\* n zero bytes with the byte at position p set to 0xFF
Patched(n, p) == [k \in 1..n |-> IF k = p THEN 255 ELSE 0]

\* The files build_directory_tree compares in the model of the whole walk:
\* an empty file and a file of one byte.
BuildContents == { File(<< >>), File(Zeros(1)) }

\* File lengths around the line boundaries of the hex dump.
FileLens ==
    {0, 1} \cup { k * ChunkSize : k \in 1..MaxLines }
           \cup { k * ChunkSize + 1 : k \in 1..(MaxLines - 1) }

\* The files of the model of one comparison: zero bytes, and zero bytes with
\* the first byte of one line set to 0xFF; and a file that is not readable.
DiffContents ==
    { File(Zeros(n)) : n \in FileLens }
    \cup { File(Patched(np[1], np[2])) :
             np \in { x \in FileLens \X { k * ChunkSize + 1 : k \in 0..(MaxLines - 1) } :
                       x[2] <= x[1] } }
    \cup { Unreadable }

\* The multipliers of the model: 0, 1/2, 1 and 2 (the default).
Multipliers == { << 0, 1 >>, << 1, 2 >>, << 1, 1 >>, << 2, 1 >> }

\* The name of the k-th record's file.
RecordPath(k) == << "f" >> \o Str(k)

\* The lists of records build_directory_tree can hand over: paths ascending,
\* a total above zero that is all insertions or all deletions.
RecordLists ==
    UNION { { [k \in 1..n |->
                 IF kind[k] = "ins"
                 THEN ChangedRecord(RecordPath(k), total[k], 0)
                 ELSE ChangedRecord(RecordPath(k), 0, total[k])] :
              total \in [1..n -> 1..MaxTotal], kind \in [1..n -> {"ins", "del"}] } :
            n \in 1..MaxRecords }

\* ------------------------------------------------------------------------
\* Specifications.

Next ==
    \/ Scan
    \/ AddedFile
    \/ RemovedFile
    \/ ComparedFile(BuildContents)
    \/ KeyError
    \/ Return

\* build_directory_tree on two directories.
Spec == Init /\ [][Next]_vars

\* One file that both directories hold, after the scan.
InitDiff ==
    /\ pc = "loop"
    /\ files1 = { << "a" >> }
    /\ files2 = { << "a" >> }
    /\ all_files = << << "a" >> >>
    /\ next_file = 1
    /\ tree = << >>
    /\ changed_files_data = << >>
    /\ xxd_calls = << >>
    /\ threshold_multiplier = << 2, 1 >>
    /\ report = NoReport

NextDiff ==
    \/ ComparedFile(DiffContents)
    \/ Return

\* The comparison of one file, over the files of DiffContents.
SpecDiff == InitDiff /\ [][NextDiff]_vars

\* main after build_directory_tree returned a list of records.
InitSig ==
    /\ pc = "analyze"
    /\ files1 = {}
    /\ files2 = {}
    /\ all_files = << >>
    /\ next_file = 1
    /\ tree = << >>
    /\ changed_files_data \in RecordLists
    /\ xxd_calls = << >>
    /\ threshold_multiplier \in Multipliers
    /\ report = NoReport

NextSig == Analyze

\* identify_significant_changes on a list of records and a multiplier.
SpecSig == InitSig /\ [][NextSig]_vars

\* ------------------------------------------------------------------------
\* What the properties read from the state.

\* The file nodes under a dict, each with the path from the root to it, in
\* the order print_tree walks them.
RECURSIVE LeavesOf(_, _)
LeavesOf(dict, prefix) ==
    IF Len(dict) = 0 THEN << >>
    ELSE LET name == dict[1][1]
             node == dict[1][2]
             here == IF node.type = "file"
                     THEN << [path |-> Join(Append(prefix, name), os_sep), node |-> node] >>
                     ELSE LeavesOf(node.children, Append(prefix, name))
         IN  here \o LeavesOf(Tail(dict), prefix)

Leaves == LeavesOf(tree, << >>)
LeafPaths == { Leaves[k].path : k \in 1..Len(Leaves) }
HasLeaf(path) == \E k \in 1..Len(Leaves) : Leaves[k].path = path
LeafAt(path) == Leaves[CHOOSE k \in 1..Len(Leaves) : Leaves[k].path = path].node

Calls == { xxd_calls[k] : k \in 1..Len(xxd_calls) }
Records == { changed_files_data[k] : k \in 1..Len(changed_files_data) }
BothReadable(call) == call.file1.readable /\ call.file2.readable

\* The lines of new and of old that a longest common subsequence leaves out.
LCSInsertions(call) ==
    Len(Xxd(call.file2.bytes)) - LCSLen(Xxd(call.file1.bytes), Xxd(call.file2.bytes))
LCSDeletions(call) ==
    Len(Xxd(call.file1.bytes)) - LCSLen(Xxd(call.file1.bytes), Xxd(call.file2.bytes))

\* The names of a dict are in ascending order, and so at every level below.
RECURSIVE ChildrenSorted(_)
ChildrenSorted(dict) ==
    /\ \A k \in 1..(Len(dict) - 1) : StrLess(dict[k][1], dict[k + 1][1])
    /\ \A k \in 1..Len(dict) :
          dict[k][2].type = "dir" => ChildrenSorted(dict[k][2].children)

\* ------------------------------------------------------------------------
\* Properties.

\* C1: build_directory_tree returns for every pair of scans, and the file
\* leaves of the returned tree are the union of the two path sets, each path
\* once; also when a file of one side is a directory of the other.
C1_LeavesAreTheUnion ==
    /\ pc # "KeyError"
    /\ pc = "done" =>
          /\ LeafPaths = files1 \cup files2
          /\ Len(Leaves) = Cardinality(files1 \cup files2)

\* C2: a path only one directory holds gets the leaf "added" (only new) or
\* "removed" (only old) with changes (0, 0); run_xxd_diff is not called on
\* it and no record is appended for it.
C2_OneSidedPathsAreNotCompared ==
    /\ \A k \in 1..Len(Leaves) :
          /\ Leaves[k].path \in added_files =>
                Leaves[k].node = FileNode("added", << 0, 0 >>)
          /\ Leaves[k].path \in removed_files =>
                Leaves[k].node = FileNode("removed", << 0, 0 >>)
    /\ \A call \in Calls : call.path \in common_files
    /\ \A r \in Records : r.path \in common_files
    /\ pc = "done" => \A path \in added_files \cup removed_files : HasLeaf(path)

\* C2 witness: the walk has returned a tree over an added and a removed file.
C2_Witness ==
    /\ pc = "done"
    /\ \E p \in added_files : HasLeaf(p) /\ LeafAt(p).status = "added"
    /\ \E p \in removed_files : HasLeaf(p) /\ LeafAt(p).status = "removed"

\* C3: the leaf of a compared file carries (insertions, deletions) of a
\* minimal edit script: the lines of new and the lines of old outside a
\* longest common subsequence of the two hex dumps.
C3_MagnitudeIsTheEditScript ==
    \A call \in Calls :
        BothReadable(call) /\ HasLeaf(call.path) =>
            LeafAt(call.path).changes = << LCSInsertions(call), LCSDeletions(call) >>

\* C4: a path whose old and new contents are the same bytes gets the leaf
\* "unchanged" with changes (0, 0) and no record.
C4_SameBytesAreUnchanged ==
    \A call \in Calls :
        BothReadable(call) /\ call.file1.bytes = call.file2.bytes =>
            /\ HasLeaf(call.path)
            /\ LeafAt(call.path) = FileNode("unchanged", << 0, 0 >>)
            /\ \A r \in Records : r.path # call.path

\* C4 witness: a file of more than one line was compared with itself.
C4_Witness ==
    \E call \in Calls :
        /\ BothReadable(call)
        /\ call.file1.bytes = call.file2.bytes
        /\ Len(call.file1.bytes) > ChunkSize
        /\ LeafAt(call.path).status = "unchanged"

\* C5: a path whose old and new contents differ (both readable) gets the
\* leaf "changed" with insertions + deletions > 0, whatever the summary of
\* the diff holds: insertions, deletions or both, one or many.
C5_DifferentBytesAreChanged ==
    \A call \in Calls :
        BothReadable(call) /\ call.file1.bytes # call.file2.bytes =>
            /\ HasLeaf(call.path)
            /\ LeafAt(call.path).status = "changed"
            /\ LeafAt(call.path).changes[1] + LeafAt(call.path).changes[2] > 0

\* C5 witness: a comparison whose diff holds deletions alone, more than one.
C5_Witness ==
    \E call \in Calls :
        /\ BothReadable(call)
        /\ LCSInsertions(call) = 0
        /\ LCSDeletions(call) > 1
        /\ LeafAt(call.path).status = "changed"

\* C6: when xxd fails on either side of a compared path, the leaf carries
\* a status of its own, none of the four of a comparison that worked.
C6_UnreadableIsAnError ==
    \A call \in Calls :
        ~BothReadable(call) /\ HasLeaf(call.path) =>
            LeafAt(call.path).status
                \notin {"unchanged", "changed", "added", "removed"}

\* The records of the input whose total is above mean + multiplier * stdev,
\* the sample deviation from the sums of the totals and of their squares.
IsOutlier(x, data, multiplier) ==
    LET n == Len(data)
        S == SumSeq(data)
        Q == SumSeq([k \in 1..n |-> data[k] * data[k]])
        D == n * x - S
        p == multiplier[1]
        q == multiplier[2]
    IN  /\ D > 0
        /\ n > 1 => D * D * q * q * (n - 1) > p * p * n * (n * Q - S * S)

InputIndex(r) == CHOOSE k \in 1..Len(changed_files_data) : changed_files_data[k] = r

\* C7: identify_significant_changes returns the records whose total is
\* above mean + multiplier * sample stdev (0 for one record), each once, by
\* total descending, records of the same total in their input order.
C7_OutliersAreThoseAboveThreshold ==
    pc = "analyzed" =>
        LET out == report.significant_files
            data == Totals(changed_files_data)
        IN  /\ \A k \in 1..Len(changed_files_data) :
                  IsOutlier(data[k], data, threshold_multiplier)
                      <=> \E j \in 1..Len(out) : out[j] = changed_files_data[k]
            /\ \A j \in 1..Len(out) : out[j] \in Records
            /\ \A i \in 1..Len(out), j \in 1..Len(out) :
                  i < j =>
                      \/ out[i].total_changes > out[j].total_changes
                      \/ /\ out[i].total_changes = out[j].total_changes
                         /\ InputIndex(out[i]) < InputIndex(out[j])

\* C7 witness: two outliers of the same total, and a record that is none.
C7_Witness ==
    /\ pc = "analyzed"
    /\ Len(report.significant_files) = 2
    /\ report.significant_files[1].total_changes = report.significant_files[2].total_changes
    /\ Len(changed_files_data) = 3
    /\ threshold_multiplier[1] > 0

AllTotalsEqual ==
    \A i \in 1..Len(changed_files_data), j \in 1..Len(changed_files_data) :
        changed_files_data[i].total_changes = changed_files_data[j].total_changes

C9_RecordsAreTheChangedLeaves ==
    pc = "done" =>
        /\ \A r \in Records :
              /\ HasLeaf(r.path)
              /\ LeafAt(r.path) = FileNode("changed", << r.insertions, r.deletions >>)
              /\ r.total_changes = r.insertions + r.deletions
              /\ r.total_changes > 0
        /\ \A k \in 1..Len(Leaves) :
              Leaves[k].node.status = "changed" =>
                  \E r \in Records : r.path = Leaves[k].path
        /\ \A k \in 1..(Len(changed_files_data) - 1) :
              StrLess(changed_files_data[k].path, changed_files_data[k + 1].path)

\* C9 witness: the walk returned two changed files, one of them by deletions.
C9_Witness ==
    /\ pc = "done"
    /\ Len(changed_files_data) = 2
    /\ \E r \in Records : r.deletions > 0

\* C10: in the returned tree the children of the root and of every
\* directory are held in ascending order of their names.
C10_ChildrenAreSortedByName == pc = "done" => ChildrenSorted(tree)

====
